---- MODULE Spec2Model ----
(***************************************************************************)
(* Lease state machine of observatory_presence.py: the in-memory `state`   *)
(* dict, its JSON file DATA_FILE, the request handlers /start, /heartbeat, *)
(* /release, /status, /host_status behind the before_request hook, the     *)
(* background cleaner thread and process restarts.                         *)
(*                                                                         *)
(* Every `with state_lock:` block of the source is one atomic action: the  *)
(* block holds the only lock for its whole length, so no other block can   *)
(* observe a state inside it.  Hence the lock is free in every state of    *)
(* the model.  What the source does OUTSIDE the lock (the hook before the  *)
(* view, the response of /start built after the block) is a separate step. *)
(***************************************************************************)
EXTENDS Integers, Sequences, FiniteSets, TLC

(************************* bounds of the model *****************************)
MaxClockTicks == 3
MaxWriteFailures == 1

(************************* program constants *******************************)
HEARTBEAT_TIMEOUT == 90

Clients == {1, 2}

\* The clock is read every half timeout.
ClockSteps == {HEARTBEAT_TIMEOUT \div 2}

\* datetime.max, in the model's seconds: base + timedelta beyond it raises
\* OverflowError.
DatetimeMax == 100000

(************************* JSON values and the dict ************************)
\* A JSON value held in `state`: an object (a dict, `kv` its items) or any
\* other JSON value (a list, null, a number, a string).
Obj(f) == [kind |-> "object", kv |-> f]
EmptyDict == Obj(<<>>)
NonDict == [kind |-> "other", kv |-> <<>>]

IsDict(s) == s.kind = "object"
Has(s, k) == k \in DOMAIN s.kv
Put(s, k, v) == Obj((k :> v) @@ s.kv)

\* Timestamps are ISO-8601 text.  now_iso() prints the clock; fromisoformat
\* reads back what isoformat printed and raises on any other text.
IsoText(t) == [fmt |-> "iso", t |-> t]
BadText == [fmt |-> "text", t |-> 0]
NoText == [fmt |-> "none", t |-> 0]
CanParse(x) == x.fmt = "iso"
fromisoformat(x) == x.t

\* state.get('occupied') as a truth value.
Occupied(s) == IsDict(s) /\ Has(s, "occupied") /\ s.kv["occupied"] = TRUE

(************************* the file DATA_FILE ******************************)
FileMissing == [content |-> "missing", json |-> EmptyDict]
FileGarbage == [content |-> "garbage", json |-> EmptyDict]
FileJson(s) == [content |-> "json", json |-> s]

\* json.dump(state, f, default=str): the file holds the text of `state`.
Dump(s) == FileJson(s)

\* Module start: no file, or a file json.load rejects, gives {}; anything
\* json.load accepts becomes `state`, whatever its type.
Load(d) == IF d.content = "json" THEN d.json ELSE EmptyDict

(************************* request inputs **********************************)
\* A numeric request field as received: absent, text that is no number, a
\* number, or (floats only) infinity such as 1e400.
RawNone == [kind |-> "none", n |-> 0]
RawText == [kind |-> "text", n |-> 0]
RawInf == [kind |-> "inf", n |-> 0]
RawNum(n) == [kind |-> "num", n |-> n]

\* Hours are counted in quarters of an hour, so that hours * 60 is a whole
\* number of minutes and round() is exact.
QuartersPerHour == 4
MinutesPerQuarter == 15

\* The `user` field of a /heartbeat, and of a /start.
RequesterIds == {"", "alice", "bob"}
StartUsers == {"", "alice"}
Targets == {"M31"}
PlannedEndInputs == {NoText, BadText}
PlannedHoursInputs == {RawNone, RawNum(-QuartersPerHour), RawNum(2 * QuartersPerHour), RawInf}
PlannedMinutesInputs == {RawNone, RawText, RawNum(1)}
HostIds == {"dome-pc"}
TimestampInputs == {BadText}
CpuInputs == {RawNum(250)}

\* request.remote_addr: every client is seen through the reverse proxy the
\* service is mounted behind (BASE_PATH, line 28).
remote_addr == "127.0.0.1"

\* The clamping of parse_int and parse_float.  An optional limit is a set:
\* {} for None, {m} for the limit m.
Clamp(v, min_value, max_value) ==
    LET lo == IF \E m \in min_value : v < m THEN CHOOSE m \in min_value : TRUE ELSE v
    IN  IF \E m \in max_value : lo > m THEN CHOOSE m \in max_value : TRUE ELSE lo

\* parse_int(value, default, min_value, max_value): int(value) raises
\* TypeError or ValueError on an absent value or on text that is no number.
parse_int(value, default, min_value, max_value) ==
    IF value.kind = "num" THEN Clamp(value.n, min_value, max_value) ELSE default

\* parse_float(value, default, min_value, max_value): float("1e400") is inf,
\* and inf passes a lower limit unchanged.
parse_float(value, default, min_value, max_value) ==
    CASE value.kind = "num" -> RawNum(Clamp(value.n, min_value, max_value))
      [] value.kind = "inf" -> IF max_value = {} THEN RawInf
                               ELSE RawNum(CHOOSE m \in max_value : TRUE)
      [] OTHER -> RawNum(default)

(************************* the state ***************************************)
VARIABLES
    state,             \* the module-level dict `state`
    disk,              \* the content of DATA_FILE
    now,               \* datetime.utcnow(), in seconds
    proc,              \* "booting" (__main__ block not yet run), "serving", "down"
    _cleaner_started,  \* the module-level flag
    cleaners,          \* number of live cleaner_loop threads
    pc,                \* per client: "idle", "view" (hook passed), "respond"
    req,               \* per client: the `user` of its /start being answered
    printed,           \* what the last step printed, "" if nothing
    resp,              \* the response the last step sent, if it sent one
    raised,            \* the exception that ended the last step, "" if none
    ticks,             \* clock advances so far
    faults,            \* failed writes since the process started
    args               \* the fields of the /start the last step served, if any

vars == <<state, disk, now, proc, _cleaner_started, cleaners, pc, req, printed,
          resp, raised, ticks, faults, args>>

\* A response: the client it goes to, the route, the `user` the request
\* carried ("" if none), the status code and the dict in the body, if any.
NoResp == [to |-> 0, op |-> "none", user |-> "", code |-> 0, body |-> EmptyDict]
Response(c, op, user, code, body) ==
    [to |-> c, op |-> op, user |-> user, code |-> code, body |-> body]

\* The fields of a /start as received: `user` after the fallback to the
\* caller's address, the planned end and the two durations as sent.
NoArgs == [user |-> "", planned_end |-> NoText, planned_hours |-> RawNone,
           planned_minutes |-> RawNone]
Args(user, pe, ph, pm) ==
    [user |-> user, planned_end |-> pe, planned_hours |-> ph, planned_minutes |-> pm]

\* Lease records a file may hold when the process starts.
FreeRecord == Obj("occupied" :> FALSE)
HeldRecord ==
    Obj(("occupied" :> TRUE) @@ ("user" :> "alice") @@ ("target" :> "M31")
        @@ ("start" :> IsoText(0)) @@ ("last_heartbeat" :> IsoText(0)))

\* Records json.load accepts although no run of this program wrote them: an
\* occupied lease without a heartbeat, one whose heartbeat is no ISO time,
\* and a free record that still carries the fields of a lease.
LeaseNoHeartbeat ==
    Obj(("occupied" :> TRUE) @@ ("user" :> "alice") @@ ("target" :> "M31")
        @@ ("start" :> IsoText(0)))
LeaseBadHeartbeat == Put(LeaseNoHeartbeat, "last_heartbeat", BadText)
FreeWithLeftovers ==
    Obj(("occupied" :> FALSE) @@ ("user" :> "bob") @@ ("planned_end" :> IsoText(0)))

InitialFiles ==
    {FileMissing, FileGarbage, FileJson(NonDict), FileJson(EmptyDict),
     FileJson(FreeRecord), FileJson(HeldRecord), FileJson(LeaseNoHeartbeat),
     FileJson(LeaseBadHeartbeat), FileJson(FreeWithLeftovers)}

\* Lines 25-52 and 102: the module is imported; under `python
\* observatory_presence.py` the __main__ block is still to run.  A lease on
\* file was written before the process starts.
Init ==
    /\ disk \in InitialFiles
    /\ state = Load(disk)
    /\ now \in ClockSteps
    /\ proc \in {"booting", "serving"}
    /\ _cleaner_started = FALSE
    /\ cleaners = 0
    /\ pc = [c \in Clients |-> "idle"]
    /\ req = [c \in Clients |-> ""]
    /\ printed = ""
    /\ resp = NoResp
    /\ ticks = 0
    /\ raised = ""
    /\ faults = 0
    /\ args = NoArgs

(************************* save_state **************************************)
\* save_state(): open(DATA_FILE, 'w') then json.dump.  The write succeeds, or
\* open() raises and the file is as it was, or open() has truncated the file
\* and the dump raises, which leaves text json.load rejects.
WriteOk(s) == [ok |-> TRUE, disk |-> Dump(s)]
WriteFailures == {[ok |-> FALSE, disk |-> disk], [ok |-> FALSE, disk |-> FileGarbage]}
save_state(s) ==
    {WriteOk(s)} \cup (IF faults < MaxWriteFailures THEN WriteFailures ELSE {})

\* The count of failed writes after a step that raised `e`.
Faults(e) == IF e = "OSError" THEN faults + 1 ELSE faults

(************************* the init hook and the cleaner *******************)
\* A _start_cleaner_once that starts the thread and forgets to set the flag.
_start_cleaner_once_noflag ==
    IF ~_cleaner_started
    THEN [cleaners |-> cleaners + 1, started |-> _cleaner_started]
    ELSE [cleaners |-> cleaners, started |-> _cleaner_started]

\* _start_cleaner_once(): the number of cleaner threads and the flag after it.
_start_cleaner_once ==
    IF ~_cleaner_started
    THEN [cleaners |-> cleaners + 1, started |-> TRUE]
    ELSE [cleaners |-> cleaners, started |-> _cleaner_started]

\* The `with` block shared by _ensure_init (lines 113-118) and the __main__
\* block (lines 253-258), given the outcome w of its write, if it writes.
\* A `state` that is no dict raises TypeError at the membership test or at
\* the item assignment; an exception of save_state leaves the block before
\* the cleaner is started.
EnsureInit(w) ==
    IF ~IsDict(state)
    THEN [state |-> state, disk |-> disk, raised |-> "TypeError"]
    ELSE IF ~Has(state, "occupied")
    THEN [state |-> Put(state, "occupied", FALSE), disk |-> w.disk,
          raised |-> IF w.ok THEN "" ELSE "OSError"]
    ELSE [state |-> state, disk |-> disk, raised |-> ""]

\* Lines 251-258: the __main__ block.  An exception ends the process.
Bootstrap ==
    /\ proc = "booting"
    /\ \E w \in save_state(Put(state, "occupied", FALSE)) :
         LET r == EnsureInit(w)
             t == _start_cleaner_once
         IN  /\ state' = r.state
             /\ disk' = r.disk
             /\ raised' = r.raised
             /\ faults' = Faults(raised')
             /\ proc' = IF r.raised # "" THEN "down" ELSE "serving"
             /\ cleaners' = IF r.raised = "" THEN t.cleaners ELSE cleaners
             /\ _cleaner_started' = IF r.raised = "" THEN t.started ELSE _cleaner_started
    /\ resp' = NoResp
    /\ printed' = ""
    /\ args' = NoArgs
    /\ UNCHANGED <<now, pc, req, ticks>>

\* Lines 110-118: before_request of every request.  An exception answers 500
\* and the view is not called.
_ensure_init(c) ==
    /\ proc = "serving"
    /\ pc[c] = "idle"
    /\ \E w \in save_state(Put(state, "occupied", FALSE)) :
         LET r == EnsureInit(w)
             t == _start_cleaner_once
         IN  /\ state' = r.state
             /\ disk' = r.disk
             /\ raised' = r.raised
             /\ faults' = Faults(raised')
             /\ cleaners' = IF r.raised = "" THEN t.cleaners ELSE cleaners
             /\ _cleaner_started' = IF r.raised = "" THEN t.started ELSE _cleaner_started
             /\ pc' = [pc EXCEPT ![c] = IF r.raised # "" THEN "idle" ELSE "view"]
             /\ resp' = IF r.raised # "" THEN Response(c, "init", "", 500, EmptyDict) ELSE NoResp
    /\ printed' = ""
    /\ args' = NoArgs
    /\ UNCHANGED <<now, proc, req, ticks>>

\* release() and the cleaner: state.clear(); state['occupied'] = False
Cleared == Obj("occupied" :> FALSE)

\* A cleaner that takes the timeout in minutes.
IsStale_minutes(s, t) ==
    /\ Occupied(s)
    /\ Has(s, "last_heartbeat")
    /\ s.kv["last_heartbeat"].fmt # "none"
    /\ LET last == IF CanParse(s.kv["last_heartbeat"])
                   THEN fromisoformat(s.kv["last_heartbeat"]) ELSE t
       IN  t - last > 60 * HEARTBEAT_TIMEOUT

\* A cleaner that also releases a lease whose planned end has passed.
IsStale_planned_end(s, t) ==
    /\ Occupied(s)
    /\ \/ /\ Has(s, "last_heartbeat")
          /\ s.kv["last_heartbeat"].fmt # "none"
          /\ LET last == IF CanParse(s.kv["last_heartbeat"])
                         THEN fromisoformat(s.kv["last_heartbeat"]) ELSE t
             IN  t - last > HEARTBEAT_TIMEOUT
       \/ /\ Has(s, "planned_end")
          /\ CanParse(s.kv["planned_end"])
          /\ t > fromisoformat(s.kv["planned_end"])

\* Lines 239-244: whether the cleaner releases.  An unparsable heartbeat
\* counts as utcnow().
IsStale(s, t) ==
    /\ Occupied(s)
    /\ Has(s, "last_heartbeat")
    /\ s.kv["last_heartbeat"].fmt # "none"
    /\ LET last == IF CanParse(s.kv["last_heartbeat"])
                   THEN fromisoformat(s.kv["last_heartbeat"]) ELSE t
       IN  t - last > HEARTBEAT_TIMEOUT

\* Line 245: print('Releasing stale session for', state.get('user'))
Stdout(s) == IF Has(s, "user") THEN s.kv["user"] ELSE "None"

\* Lines 235-249: one pass of cleaner_loop.  An exception of save_state ends
\* the thread.
cleaner_loop ==
    /\ proc = "serving"
    /\ cleaners > 0
    /\ IF IsStale(state, now)
       THEN \E w \in save_state(Cleared) :
              /\ printed' = Stdout(state)
              /\ state' = Cleared
              /\ disk' = w.disk
              /\ raised' = IF w.ok THEN "" ELSE "OSError"
              /\ faults' = Faults(raised')
              /\ cleaners' = IF w.ok THEN cleaners ELSE cleaners - 1
       ELSE /\ printed' = ""
            /\ raised' = ""
            /\ faults' = faults
            /\ UNCHANGED <<state, disk, cleaners>>
    /\ resp' = NoResp
    /\ args' = NoArgs
    /\ UNCHANGED <<now, proc, _cleaner_started, pc, req, ticks>>

(************************* the views ***************************************)
\* Lines 134-137: /status answers with the whole dict.
status(c) ==
    /\ proc = "serving"
    /\ pc[c] = "view"
    /\ resp' = Response(c, "status", "", 200, state)
    /\ raised' = ""
    /\ faults' = Faults(raised')
    /\ pc' = [pc EXCEPT ![c] = "idle"]
    /\ printed' = ""
    /\ args' = NoArgs
    /\ UNCHANGED <<state, disk, now, proc, _cleaner_started, cleaners, req, ticks>>

\* A /start in which the minutes take precedence over the hours.
start_lease_minutes_first(s, user, target, planned_end_iso, planned_hours, planned_minutes, t) ==
    LET s1 == Put(Put(Put(Put(Put(s, "occupied", TRUE), "user", user),
                  "target", target), "start", IsoText(t)), "last_heartbeat", IsoText(t))
        byMinutes == planned_minutes > 0
        byHours == ~byMinutes /\ (planned_hours.kind = "inf" \/ planned_hours.n > 0)
        total_minutes == IF byHours THEN planned_hours.n * MinutesPerQuarter
                         ELSE IF byMinutes THEN planned_minutes ELSE 0
        s2 == IF byHours THEN Put(s1, "planned_hours", planned_hours.n)
              ELSE IF byMinutes THEN Put(s1, "planned_minutes", planned_minutes)
              ELSE s1
        end_dt == t + total_minutes * 60
    IN  IF planned_end_iso.fmt # "none"
        THEN [state |-> Put(s1, "planned_end", planned_end_iso), raised |-> ""]
        ELSE IF byHours /\ planned_hours.kind = "inf"
        THEN [state |-> s1, raised |-> "OverflowError"]
        ELSE IF total_minutes > 0
        THEN [state |-> Put(s2, "planned_end", IsoText(end_dt)), raised |-> ""]
        ELSE [state |-> s2, raised |-> ""]

\* Lines 178-206: the dict a /start leaves behind on a free lease, and the
\* exception that left the block before save_state, if any.
\* int(round(inf * 60)) raises OverflowError (line 193), and so does
\* base + timedelta beyond datetime.max (line 203); neither is caught.
start_lease(s, user, target, planned_end_iso, planned_hours, planned_minutes, t) ==
    LET s1 == Put(Put(Put(Put(Put(s, "occupied", TRUE), "user", user),
                  "target", target), "start", IsoText(t)), "last_heartbeat", IsoText(t))
        byHours == planned_hours.kind = "inf" \/ planned_hours.n > 0
        byMinutes == ~byHours /\ planned_minutes > 0
        total_minutes == IF byHours THEN planned_hours.n * MinutesPerQuarter
                         ELSE IF byMinutes THEN planned_minutes ELSE 0
        s2 == IF byHours THEN Put(s1, "planned_hours", planned_hours.n)
              ELSE IF byMinutes THEN Put(s1, "planned_minutes", planned_minutes)
              ELSE s1
        end_dt == t + total_minutes * 60
    IN  IF planned_end_iso.fmt # "none"
        THEN [state |-> Put(s1, "planned_end", planned_end_iso), raised |-> ""]
        ELSE IF planned_hours.kind = "inf"
        THEN [state |-> s1, raised |-> "OverflowError"]
        ELSE IF total_minutes > 0 /\ end_dt > DatetimeMax
        THEN [state |-> s2, raised |-> "OverflowError"]
        ELSE IF total_minutes > 0
        THEN [state |-> Put(s2, "planned_end", IsoText(end_dt)), raised |-> ""]
        ELSE [state |-> s2, raised |-> ""]

\* Lines 162-207: /start up to the end of its `with` block.
start(c) ==
    /\ proc = "serving"
    /\ pc[c] = "view"
    /\ \E u \in StartUsers :
         LET user == IF u # "" THEN u ELSE remote_addr
         IN  IF Occupied(state)
             THEN /\ resp' = Response(c, "start", user, 409, state)
                  /\ raised' = ""
                  /\ pc' = [pc EXCEPT ![c] = "idle"]
                  /\ args' = NoArgs
                  /\ UNCHANGED <<state, disk, req>>
             ELSE \E target \in Targets, pe \in PlannedEndInputs,
                     ph \in PlannedHoursInputs, pm \in PlannedMinutesInputs :
                    LET planned_minutes == parse_int(pm, 0, {0}, {})
                        planned_hours == parse_float(ph, 0, {0}, {})
                        r == start_lease(state, user, target, pe, planned_hours,
                                         planned_minutes, now)
                    IN  /\ args' = Args(user, pe, ph, pm)
                        /\ IF r.raised # ""
                           THEN /\ state' = r.state
                                /\ raised' = r.raised
                                /\ resp' = Response(c, "start", user, 500, EmptyDict)
                                /\ pc' = [pc EXCEPT ![c] = "idle"]
                                /\ UNCHANGED <<disk, req>>
                           ELSE \E w \in save_state(r.state) :
                                /\ state' = r.state
                                /\ disk' = w.disk
                                /\ raised' = IF w.ok THEN "" ELSE "OSError"
                                /\ pc' = [pc EXCEPT ![c] = IF w.ok THEN "respond" ELSE "idle"]
                                /\ req' = [req EXCEPT ![c] = IF w.ok THEN user ELSE ""]
                                /\ resp' = IF w.ok THEN NoResp
                                           ELSE Response(c, "start", user, 500, EmptyDict)
    /\ faults' = Faults(raised')
    /\ printed' = ""
    /\ UNCHANGED <<now, proc, _cleaner_started, cleaners, ticks>>

\* Line 208: the answer of a /start that went through, built from the dict
\* after the lock is released.
start_respond(c) ==
    /\ proc = "serving"
    /\ pc[c] = "respond"
    /\ resp' = Response(c, "start", req[c], 200, state)
    /\ raised' = ""
    /\ faults' = Faults(raised')
    /\ pc' = [pc EXCEPT ![c] = "idle"]
    /\ req' = [req EXCEPT ![c] = ""]
    /\ printed' = ""
    /\ args' = NoArgs
    /\ UNCHANGED <<state, disk, now, proc, _cleaner_started, cleaners, ticks>>

\* A /heartbeat without the identity check.
heartbeat_check_anyone(s, user) ==
    IF ~Occupied(s) THEN 404 ELSE 200

\* A /heartbeat that checks the identity of a request that carries none.
heartbeat_check_strict(s, user) ==
    IF ~Occupied(s) THEN 404
    ELSE IF ~Has(s, "user") \/ user # s.kv["user"] THEN 403
    ELSE 200

\* A /heartbeat with the comparison inverted.
heartbeat_check_inverted(s, user) ==
    IF ~Occupied(s) THEN 404
    ELSE IF user # "" /\ Has(s, "user") /\ user = s.kv["user"] THEN 403
    ELSE 200

\* Lines 216-219: the status code /heartbeat decides on.
heartbeat_check(s, user) ==
    IF ~Occupied(s) THEN 404
    ELSE IF user # "" /\ (~Has(s, "user") \/ user # s.kv["user"]) THEN 403
    ELSE 200

\* A /heartbeat that stamps the start of the lease.
refresh_start(s, t) == Put(s, "start", IsoText(t))

\* Line 220: state['last_heartbeat'] = now_iso()
refresh(s, t) == Put(s, "last_heartbeat", IsoText(t))

\* Lines 210-222: /heartbeat.
heartbeat(c) ==
    /\ proc = "serving"
    /\ pc[c] = "view"
    /\ \E user \in RequesterIds :
         LET code == heartbeat_check(state, user)
             s1 == refresh(state, now)
         IN  IF code # 200
             THEN /\ resp' = Response(c, "heartbeat", user, code, EmptyDict)
                  /\ raised' = ""
                  /\ faults' = Faults(raised')
                  /\ UNCHANGED <<state, disk>>
             ELSE \E w \in save_state(s1) :
                  /\ state' = s1
                  /\ disk' = w.disk
                  /\ raised' = IF w.ok THEN "" ELSE "OSError"
                  /\ faults' = Faults(raised')
                  /\ resp' = Response(c, "heartbeat", user, IF w.ok THEN 200 ELSE 500, EmptyDict)
    /\ pc' = [pc EXCEPT ![c] = "idle"]
    /\ printed' = ""
    /\ args' = NoArgs
    /\ UNCHANGED <<now, proc, _cleaner_started, cleaners, req, ticks>>

\* Lines 224-232: /release.
release(c) ==
    /\ proc = "serving"
    /\ pc[c] = "view"
    /\ \E w \in save_state(Cleared) :
         /\ state' = Cleared
         /\ disk' = w.disk
         /\ raised' = IF w.ok THEN "" ELSE "OSError"
         /\ faults' = Faults(raised')
         /\ resp' = Response(c, "release", "", IF w.ok THEN 200 ELSE 500, EmptyDict)
    /\ pc' = [pc EXCEPT ![c] = "idle"]
    /\ printed' = ""
    /\ args' = NoArgs
    /\ UNCHANGED <<now, proc, _cleaner_started, cleaners, req, ticks>>

\* Lines 145-155: the record /host_status stores (percentages clamped to
\* 0..100).
host_record(host_id, ts, cpuPercent, t) ==
    [hostId |-> host_id,
     ts |-> IF ts.fmt # "none" THEN ts ELSE IsoText(t),
     cpuPercent |-> parse_float(cpuPercent, 0, {0}, {100}).n]

\* Lines 139-161: /host_status.  A body that is no JSON is answered 400.
host_status(c) ==
    /\ proc = "serving"
    /\ pc[c] = "view"
    /\ \/ /\ resp' = Response(c, "host_status", "", 400, EmptyDict)
          /\ raised' = ""
          /\ faults' = Faults(raised')
          /\ UNCHANGED <<state, disk>>
       \/ \E h \in HostIds, ts \in TimestampInputs, cpu \in CpuInputs :
            LET host_id == IF h # "" THEN h ELSE remote_addr
                hosts == IF Has(state, "hosts") THEN state.kv["hosts"] ELSE <<>>
                s1 == Put(state, "hosts",
                          (host_id :> host_record(host_id, ts, cpu, now)) @@ hosts)
            IN  \E w \in save_state(s1) :
                  /\ state' = s1
                  /\ disk' = w.disk
                  /\ raised' = IF w.ok THEN "" ELSE "OSError"
                  /\ faults' = Faults(raised')
                  /\ resp' = Response(c, "host_status", "", IF w.ok THEN 200 ELSE 500, EmptyDict)
    /\ pc' = [pc EXCEPT ![c] = "idle"]
    /\ printed' = ""
    /\ args' = NoArgs
    /\ UNCHANGED <<now, proc, _cleaner_started, cleaners, req, ticks>>

(************************* the environment *********************************)
\* datetime.utcnow() moves on.
ClockTick ==
    /\ ticks < MaxClockTicks
    /\ \E d \in ClockSteps : now' = now + d
    /\ ticks' = ticks + 1
    /\ resp' = NoResp
    /\ raised' = ""
    /\ faults' = Faults(raised')
    /\ printed' = ""
    /\ args' = NoArgs
    /\ UNCHANGED <<state, disk, proc, _cleaner_started, cleaners, pc, req>>

\* The process ends (a crash, a kill, a reboot) and is started again: lines
\* 25-52 and 102 run anew, every thread and every request in flight is gone.
Restart ==
    /\ state' = Load(disk)
    /\ proc' \in {"booting", "serving"}
    /\ _cleaner_started' = FALSE
    /\ cleaners' = 0
    /\ pc' = [c \in Clients |-> "idle"]
    /\ req' = [c \in Clients |-> ""]
    /\ printed' = ""
    /\ args' = NoArgs
    /\ resp' = NoResp
    /\ raised' = ""
    /\ faults' = 0
    /\ UNCHANGED <<disk, now, ticks>>

Next ==
    \/ Bootstrap
    \/ \E c \in Clients : _ensure_init(c)
    \/ \E c \in Clients : status(c)
    \/ \E c \in Clients : host_status(c)
    \/ \E c \in Clients : start(c)
    \/ \E c \in Clients : start_respond(c)
    \/ \E c \in Clients : heartbeat(c)
    \/ \E c \in Clients : release(c)
    \/ cleaner_loop
    \/ ClockTick
    \/ Restart

Spec == Init /\ [][Next]_vars

\* Line 237 and line 249: a live cleaner thread makes its next pass ten
\* seconds after the last one, for ever; and time passes.  Requests and
\* restarts come or not.
FairSpec == Spec /\ WF_vars(cleaner_loop) /\ WF_vars(ClockTick)

(************************* vocabulary of the properties ********************)
\* The fields of the lease, as the spec names them.
Holder(s) == IF Has(s, "user") THEN s.kv["user"] ELSE "None"
HeartbeatParses(s) == Has(s, "last_heartbeat") /\ CanParse(s.kv["last_heartbeat"])
LastHeartbeat(s) == fromisoformat(s.kv["last_heartbeat"])
StartedAt(s) == fromisoformat(s.kv["start"])

\* The lease s with lastHeartbeat = t and every other field as it is.
WithHeartbeat(s, t) == Obj([k \in DOMAIN s.kv \cup {"last_heartbeat"} |->
                            IF k = "last_heartbeat" THEN IsoText(t) ELSE s.kv[k]])

\* Snapshot: what /status answers for the dict s.
Snapshot(s) == s
ShowsFree(body) == IsDict(body) /\ Has(body, "occupied") /\ body.kv["occupied"] = FALSE

\* A lease taken under a name the request gave, not under the caller's address.
Identified(s) == Occupied(s) /\ Has(s, "user") /\ s.kv["user"] # remote_addr

\* What a restart would load is what is in memory.
InSync == Load(disk) = state

\* The file holds a JSON object, and one that is an occupied lease.
IsRecord(d) == d.content = "json" /\ IsDict(d.json)
HoldsLease(d) == IsRecord(d) /\ Occupied(d.json)

\* The process has started and nothing has run since: no hook has gone
\* through, no write has failed.
Fresh == ~_cleaner_started /\ faults = 0 /\ proc # "down"

(************************* C1 **********************************************)
\* C1: with no Release and no expiry in between, an Acquire on a free lease
\* goes through and takes the lease, and an Acquire on an occupied lease is
\* answered 409 with the existing lease and leaves it unchanged; so of N
\* attempts from a free lease exactly one succeeds and N-1 are conflicts.
\* (Stated for the attempts whose write of the file does not fail.)
C1_ExactlyOneAcquireWins ==
    [][\A c \in Clients : (start(c) /\ raised' # "OSError") =>
          /\ ~Occupied(state) => (pc'[c] = "respond" /\ Occupied(state'))
          /\ Occupied(state) =>
               (resp'.code = 409 /\ resp'.body = state /\ state' = state)]_vars

(************************* C2 **********************************************)
\* C2: a pass of the cleaner over a lease whose heartbeat is older than the
\* timeout releases it: the Snapshot that follows shows occupied = false.
C2_StaleLeaseExpires ==
    [][(/\ cleaner_loop
        /\ Occupied(state)
        /\ HeartbeatParses(state)
        /\ now - LastHeartbeat(state) > HEARTBEAT_TIMEOUT)
       => ShowsFree(Snapshot(state'))]_vars

\* The cleaner has just released a lease, after the timeout.
C2_Witness ==
    /\ printed # ""
    /\ now > HEARTBEAT_TIMEOUT
    /\ ShowsFree(Snapshot(state))

(************************* C3 **********************************************)
\* C3: a Renew on a free lease is answered 404, a Renew on an occupied lease
\* under a non-empty name that is not the holder's is answered 403, and a
\* Renew answered 403 or 404 leaves the dict and the file as they were.
C3_RejectedRenewChangesNothing ==
    [][\A c \in Clients : (resp'.op = "heartbeat" /\ heartbeat(c)) =>
          /\ ~Occupied(state) => resp'.code = 404
          /\ (Occupied(state) /\ resp'.user # "" /\ resp'.user # Holder(state))
               => resp'.code = 403
          /\ resp'.code \in {403, 404} => (state' = state /\ disk' = disk)]_vars

\* A Renew under another name has just been answered 403 on a held lease.
C3_Witness ==
    /\ resp.op = "heartbeat"
    /\ resp.code = 403
    /\ Occupied(state)
    /\ resp.user # Holder(state)

(************************* C4 **********************************************)
\* C4, as claimed: a Renew that carries no name, on an occupied lease, is
\* always answered 200 and sets lastHeartbeat to now.
C4_AnonymousRenewAlwaysSucceeds ==
    [][\A c \in Clients :
          (resp'.op = "heartbeat" /\ heartbeat(c) /\ Occupied(state) /\ resp'.user = "")
          => (resp'.code = 200 /\ state' = WithHeartbeat(state, now))]_vars

\* C4, amended: a Renew that carries no name, on an occupied lease, is never
\* rejected as NoActiveLease or WrongHolder, whoever the holder is, and sets
\* lastHeartbeat to now; it is answered 200 unless the write of the file
\* fails, and then the error of the write is what the caller gets.
C4_AnonymousRenewNeverRejected ==
    [][\A c \in Clients :
          (resp'.op = "heartbeat" /\ heartbeat(c) /\ Occupied(state) /\ resp'.user = "")
          => /\ state' = WithHeartbeat(state, now)
             /\ LastHeartbeat(state') = now
             /\ resp'.code = (IF raised' = "OSError" THEN 500 ELSE 200)
             /\ raised' \in {"", "OSError"}]_vars

\* A Renew without a name has just been acknowledged on alice's lease.
C4_Witness ==
    /\ resp.op = "heartbeat"
    /\ resp.user = ""
    /\ resp.code = 200
    /\ Occupied(state)
    /\ Holder(state) = "alice"
    /\ LastHeartbeat(state) = now

(************************* C5 **********************************************)
\* C5, as claimed: on a lease taken under an explicit name, every Renew that
\* goes through was sent under that same name.
C5_OnlyHolderRenews ==
    [][\A c \in Clients :
          (resp'.op = "heartbeat" /\ heartbeat(c) /\ Identified(state) /\ resp'.code = 200)
          => resp'.user = Holder(state)]_vars

\* C5, amended: on a lease taken under an explicit name, every Renew that is
\* not rejected was sent under that same name or under no name at all; a
\* caller that gives another name never extends the lease.
C5_OnlyHolderOrAnonymousRenews ==
    [][\A c \in Clients :
          (resp'.op = "heartbeat" /\ heartbeat(c) /\ Identified(state)
             /\ resp'.code \notin {403, 404})
          => resp'.user \in {"", Holder(state)}]_vars

\* The holder of an identified lease has just renewed it under its name.
C5_Witness ==
    /\ resp.op = "heartbeat"
    /\ resp.code = 200
    /\ Identified(state)
    /\ resp.user = Holder(state)

(************************* C6 **********************************************)
\* C6, as claimed: a Renew by the holder that is acknowledged changes only
\* lastHeartbeat, which becomes strictly greater than it was.
C6_RenewStrictlyAdvances ==
    [][\A c \in Clients :
          (resp'.op = "heartbeat" /\ heartbeat(c) /\ resp'.code = 200
             /\ resp'.user = Holder(state)
             /\ HeartbeatParses(state))
          => /\ state' = WithHeartbeat(state, LastHeartbeat(state'))
             /\ LastHeartbeat(state') > LastHeartbeat(state)]_vars

\* C6, amended: a Renew by the holder that is acknowledged changes only
\* lastHeartbeat (holder, startedAt, target and plannedEnd are as before),
\* which becomes now: never less than it was, and strictly greater exactly
\* when the clock has moved since the last heartbeat; the file holds the
\* result.
C6_RenewSetsHeartbeatToNow ==
    [][\A c \in Clients :
          (resp'.op = "heartbeat" /\ heartbeat(c) /\ resp'.code = 200
             /\ resp'.user = Holder(state)
             /\ HeartbeatParses(state))
          => /\ state' = WithHeartbeat(state, LastHeartbeat(state'))
             /\ LastHeartbeat(state') = now
             /\ LastHeartbeat(state') >= LastHeartbeat(state)
             /\ (LastHeartbeat(state') > LastHeartbeat(state)
                   <=> now > LastHeartbeat(state))
             /\ disk' = Dump(state')]_vars

\* The holder has just renewed under its name, after the clock had moved:
\* lastHeartbeat is past startedAt.
C6_Witness ==
    /\ resp.op = "heartbeat"
    /\ resp.code = 200
    /\ resp.user # ""
    /\ resp.user = Holder(state)
    /\ LastHeartbeat(state) > StartedAt(state)

(************************* C7 **********************************************)
\* C7: a Release on a free lease that is acknowledged leaves the dict and
\* the file as they were.
C7_ReleaseOnFreeIsNoOp ==
    [][\A c \in Clients :
          (release(c) /\ ~Occupied(state) /\ InSync /\ resp'.code = 200)
          => (state' = state /\ disk' = disk)]_vars

(************************* C8 **********************************************)
\* C8: a process started on a file that holds an occupied lease reports that
\* lease; a process started on a missing or corrupt file does not fail (the
\* __main__ block does not end the process, the init hook answers no
\* request with an error) and its Snapshot shows occupied = false.
C8_RestartRecovery ==
    /\ (Fresh /\ HoldsLease(disk)) => Snapshot(state) = disk.json
    /\ (faults = 0 /\ ~IsRecord(disk)) =>
         /\ proc # "down"
         /\ raised # "TypeError"
         /\ resp.op = "status" => ShowsFree(resp.body)

(************************* C9 **********************************************)
\* C9: every mutation is written before its answer, so as long as no write
\* has failed the file holds what is in memory.
C9_FileHoldsMemory == faults = 0 => InSync

(************************* C10 *********************************************)
\* C10: when the write fails in Acquire, Renew or Release, the caller gets
\* an error and what is in memory is what a restart would load.
C10_NoDivergenceOnWriteFailure ==
    (raised = "OSError" /\ resp.op \in {"start", "heartbeat", "release"})
    => (resp.code = 500 /\ InSync)

(************************* C11 *********************************************)
\* C11: a failed write does not end the cleaner: after a step whose write
\* failed, in the cleaner itself or in a request, the cleaner thread that was
\* running is still running, so that it releases a later stale lease.
C11_SweeperSurvivesWriteFailure ==
    [][(raised' = "OSError" /\ cleaners > 0) => cleaners' > 0]_vars

(************************* C12 *********************************************)
\* C12: in no state of a process do two cleaner threads run; a cleaner thread
\* is started only while the flag is unset, by the step that sets it, and the
\* flag is unset again only in a new process, which has no cleaner thread.
C12_OneSweeperPerProcess ==
    [][/\ cleaners' <= 1
       /\ cleaners' > cleaners => (~_cleaner_started /\ _cleaner_started')
       /\ (_cleaner_started /\ ~_cleaner_started') => cleaners' = 0]_vars

\* Both clients have passed the init hook in this process, and one cleaner
\* thread runs.
C12_Witness ==
    /\ \A c \in Clients : pc[c] = "view"
    /\ _cleaner_started
    /\ cleaners = 1

(************************* C13 *********************************************)
\* C13: the cleaner runs from the start of the process, requests or not: in
\* a serving process in which no write has failed, a lease whose heartbeat is
\* older than the timeout has a cleaner thread running to release it.
C13_SweeperRunsWithoutRequests ==
    (/\ proc = "serving"
     /\ faults = 0
     /\ Occupied(state)
     /\ HeartbeatParses(state)
     /\ now - LastHeartbeat(state) > HEARTBEAT_TIMEOUT)
    => cleaners > 0

(************************* C14 *********************************************)
\* The telemetry mapping of the dict s, and the rest of it: the lease.
Hosts(s) == IF IsDict(s) /\ Has(s, "hosts") THEN s.kv["hosts"] ELSE <<>>
LeaseFields(s) == [k \in DOMAIN s.kv \ {"hosts"} |-> s.kv[k]]

\* C14: /start, /heartbeat, /release and the cleaner leave the telemetry
\* mapping as it was, and /host_status leaves every field of the lease as it
\* was.
\* (Stated for the runs in which no write fails.)
C14_TelemetryIndependentOfLease ==
    [][faults' = 0 =>
         /\ ((\E c \in Clients : start(c) \/ heartbeat(c) \/ release(c)) \/ cleaner_loop)
            => Hosts(state') = Hosts(state)
         /\ (\E c \in Clients : host_status(c))
            => LeaseFields(state') = LeaseFields(state)]_vars

(************************* C15 *********************************************)
\* The planned end the reference gives for the fields a of a /start at time
\* T, as a set: empty when it gives none.  Hours arrive in quarters.
PlannedEndRef(a, T) ==
    IF a.planned_end.fmt # "none" THEN {a.planned_end}
    ELSE IF a.planned_hours.kind = "num" /\ a.planned_hours.n > 0
    THEN {IsoText(T + ((a.planned_hours.n * 60) \div QuartersPerHour) * 60)}
    ELSE IF a.planned_minutes.kind = "num" /\ a.planned_minutes.n > 0
    THEN {IsoText(T + a.planned_minutes.n * 60)}
    ELSE {}
PlannedEnd(s) == IF Has(s, "planned_end") THEN {s.kv["planned_end"]} ELSE {}

C16_StartAnswersItsOwnLease ==
    (faults = 0 /\ resp.op = "start" /\ resp.code = 200) =>
        /\ Occupied(resp.body)
        /\ Holder(resp.body) = resp.user
        /\ HeartbeatParses(resp.body)
        /\ StartedAt(resp.body) = LastHeartbeat(resp.body)

(************************* C17 *********************************************)
\* C17: a pass of the cleaner changes the dict only to release a lease whose
\* heartbeat, as the dict holds it at that moment, is older than the timeout:
\* a lease renewed or taken less than the timeout ago is left alone, whatever
\* its planned end.
C17_ReleaseOnlyWhenStale ==
    [][(cleaner_loop /\ (state' # state \/ printed' # "")) =>
          /\ Occupied(state)
          /\ HeartbeatParses(state)
          /\ now - LastHeartbeat(state) > HEARTBEAT_TIMEOUT
          /\ state' = Cleared]_vars

\* The cleaner has just released, and written to the file, a lease that was
\* taken in this run under the caller's address.
C17_Witness ==
    /\ printed = remote_addr
    /\ raised = ""
    /\ state = Cleared
    /\ InSync

(************************* C18 *********************************************)
\* C18: in every state, loaded or reached, an occupied lease has a holder
\* that is not empty, a startedAt and a lastHeartbeat, and startedAt is not
\* after lastHeartbeat.
C18_OccupiedHasHolderAndTimes ==
    Occupied(state) =>
        /\ Has(state, "user") /\ state.kv["user"] # ""
        /\ Has(state, "start") /\ CanParse(state.kv["start"])
        /\ HeartbeatParses(state)
        /\ StartedAt(state) <= LastHeartbeat(state)

(************************* C19 *********************************************)
\* The keys of the dict that belong to the lease and its holder.
HolderScoped ==
    {"user", "target", "start", "last_heartbeat", "planned_end", "planned_hours",
     "planned_minutes"}

\* C19: in every state, loaded or reached, a dict that is not occupied
\* carries none of the holder-scoped fields.
C19_FreeHasNoLeaseFields ==
    (IsDict(state) /\ ~Occupied(state)) => DOMAIN state.kv \cap HolderScoped = {}

(************************* C20 *********************************************)
\* C20: with the cleaner running and making its passes, an occupied lease
\* that is not renewed is released in the end, also when the lease came from
\* the file without a lastHeartbeat or with one that is no ISO time.  (Stated
\* for those leases: such a lease is in the end released, unless a Renew
\* gives it a heartbeat or the cleaner thread of the process is gone.)
\* A pass of the cleaner that releases nothing changes no variable: where a
\* behaviour of the model stutters for ever, the cleaner of the program makes
\* pass after pass, ten seconds apart, and finds nothing to release.
C20_EventualReclamation ==
    (Occupied(state) /\ ~HeartbeatParses(state) /\ cleaners > 0)
    ~> (~Occupied(state) \/ HeartbeatParses(state) \/ cleaners = 0)

====
